---- MODULE Spec2Model ----
(***************************************************************************)
(* Smith-Waterman chunk alignment (src/alignment.py) and the chunking of   *)
(* a protein sequence (src/chunking.py).                                   *)
(*                                                                         *)
(* Similarity values, gap penalties, thresholds and scores are reals in    *)
(* the program.  Here every such quantity is an integer number of tenths   *)
(* (0.9 is 9, -0.2 is -2), so sums and comparisons are exact.              *)
(***************************************************************************)
EXTENDS Integers, Sequences, FiniteSets, TLC

\* ------------------------------------------------------------------ bounds
\* matrices given to smith_waterman_chunks: at most MaxRows x MaxCols, with at
\* most MaxHits non-zero cells
MaxRows == 3
MaxCols == 3
MaxHits == 3
\* matrices where find_multiple_alignments is called too: at most
\* FindRows x FindCols, with at most FindHits non-zero cells
FindRows == 2
FindCols == 3
FindHits == 2
\* largest max_alignments a caller passes
MaxCount == 2
\* largest identity-like matrix
MaxIdentity == 3

\* longest sequence, chunk_len and stride given to chunk_protein
MaxLen == 8
MaxChunkLen == 4
MaxStride == 5

\* ------------------------------------------------- program constants (tenths)
GAP_OPEN == -2
GAP_EXTEND == -1
SCORE_THRESHOLD == 5

\* traceback tags, the indices of scores = [0, match, gap_h, gap_b]
STOP == 0
DIAGONAL == 1
UP == 2
LEFT == 3

\* ------------------------------------------------------------------ inputs
\* similarity values of the enumerated matrices
Vals == {0, 4, 9}

\* an n1 x n2 ndarray: its shape and its cells, 0-indexed
Matrix(n1, n2, f) == [shape |-> <<n1, n2>>, a |-> f]
Cells(n1, n2) == (0 .. n1 - 1) \X (0 .. n2 - 1)
FromRows(rows) ==
    LET n1 == Len(rows)
        n2 == IF n1 = 0 THEN 0 ELSE Len(rows[1])
    IN  Matrix(n1, n2, [p \in Cells(n1, n2) |-> rows[p[1] + 1][p[2] + 1]])

\* the n1 x n2 matrix that is g on the cells of hit and 0 elsewhere
Sparse(n1, n2, hit, g) ==
    Matrix(n1, n2, [p \in Cells(n1, n2) |-> IF p \in hit THEN g[p] ELSE 0])

\* m has at most r x c cells, values in Vals and at most h non-zero cells
IsSmallMatrix(m, r, c, h) ==
    \E n1 \in 0 .. r, n2 \in 0 .. c :
        \E hit \in { x \in SUBSET Cells(n1, n2) : Cardinality(x) <= h } :
            \E g \in [hit -> Vals \ {0}] : m = Sparse(n1, n2, hit, g)

\* the matrix of test_alignment
TestMatrix == FromRows(<< <<9, 8, 3>>, <<7, 9, 4>>, <<3, 5, 8>> >>)

\* the n x m matrix with v everywhere
Constant(n, m, v) == Matrix(n, m, [p \in Cells(n, m) |-> v])

\* the n x n matrix with d on the diagonal and 0 elsewhere
IdentityLike(n, d) == Matrix(n, n, [p \in Cells(n, n) |-> IF p[1] = p[2] THEN d ELSE 0])
IdentityLikes == { IdentityLike(n, d) : n \in 0 .. MaxIdentity, d \in {-4, 4, 6, 9} }

\* two chunks of one sequence matching the same stretch of the other, and a
\* third match further on
TieMatrix == FromRows(<< <<0, 9, 0, 0>>, <<9, 0, 0, 0>>, <<0, 0, 0, 9>> >>)
TieMatrixLow == FromRows(<< <<0, 0, 0, 0>>, <<9, 0, 0, 0>>, <<0, 0, 0, 9>> >>)

\* two runs of perfect matches (similarity 1.0) that cross
CrossMatrix ==
    FromRows(<< <<10,  0,  0,  0,  0,  0,  0>>,
                <<10, 10,  0,  0,  0,  0,  0>>,
                << 0, 10,  0,  0,  0,  0,  0>>,
                << 0,  0, 10,  0,  0,  0,  0>>,
                << 0,  0,  0, 10, 10,  0,  0>>,
                << 0,  0,  0,  0, 10, 10,  0>>,
                << 0,  0,  0,  0,  0,  0, 10>> >>)

AlignScenarios ==
    {TestMatrix, Constant(3, 3, 4), TieMatrix, TieMatrixLow} \cup IdentityLikes
Scenarios ==
    {TestMatrix, Constant(3, 3, 4), TieMatrix, CrossMatrix} \cup IdentityLikes

\* (gap_open, gap_extend) pairs a caller passes; the first is the default
GapPairs == { <<GAP_OPEN, GAP_EXTEND>>, <<-4, -2>>, <<1, 1>> }
\* score_threshold values a caller passes
Thresholds == {SCORE_THRESHOLD, 0, -5}
\* (min_score, min_chunks) pairs a caller passes; the last is the default
Acceptance == { <<0, 0>>, <<1, 1>>, <<10, 3>> }

\* ------------------------------------------------------- smith_waterman_chunks
\* (variant: the stop candidate is never chosen)
ArgMax_NoStop(scores) ==
    CHOOSE b \in 1 .. 3 :
        /\ \A c \in 1 .. 3 : scores[c] <= scores[b]
        /\ \A c \in 1 .. (b - 1) : scores[c] < scores[b]

\* (variant: the last index of the maximum)
ArgMax_Last(scores) ==
    CHOOSE b \in 0 .. 3 :
        /\ \A c \in 0 .. 3 : scores[c] <= scores[b]
        /\ \A c \in (b + 1) .. 3 : scores[c] < scores[b]

\* np.argmax over scores, a function on 0..3: the first index of the maximum
ArgMax(scores) ==
    CHOOSE b \in 0 .. 3 :
        /\ \A c \in 0 .. 3 : scores[c] <= scores[b]
        /\ \A c \in 0 .. (b - 1) : scores[c] < scores[b]

\* (variant: the best score so far starts below every score)
DPInit_NoBest(n_human, n_bact) ==
    [ H_matrix  |-> [p \in (0 .. n_human) \X (0 .. n_bact) |-> 0],
      traceback |-> [p \in (0 .. n_human) \X (0 .. n_bact) |-> 0],
      max_score |-> -1,
      max_pos   |-> <<0, 0>>,
      i         |-> 1,
      j         |-> 1 ]

\* the state of the dynamic program before any cell is filled; i and j are
\* the loop variables
DPInit(n_human, n_bact) ==
    [ H_matrix  |-> [p \in (0 .. n_human) \X (0 .. n_bact) |-> 0],
      traceback |-> [p \in (0 .. n_human) \X (0 .. n_bact) |-> 0],
      max_score |-> 0,
      max_pos   |-> <<0, 0>>,
      i         |-> 1,
      j         |-> 1 ]

\* (variant: the threshold is not subtracted)
Sim_NoThreshold(S, score_threshold, i, j) == S.a[<<i - 1, j - 1>>]

\* sim = S[i-1, j-1] - score_threshold
Sim(S, score_threshold, i, j) == S.a[<<i - 1, j - 1>>] - score_threshold

\* (variant: every gap step costs gap_open)
GapPenalty_Linear(tag, direction, gap_open, gap_extend) == gap_open

\* (variant: the penalty is subtracted, so a negative penalty is a reward)
GapPenalty_Subtracted(tag, direction, gap_open, gap_extend) ==
    IF tag = direction THEN 0 - gap_extend ELSE 0 - gap_open

\* (gap_extend if traceback[...] == direction else gap_open)
GapPenalty(tag, direction, gap_open, gap_extend) ==
    IF tag = direction THEN gap_extend ELSE gap_open

\* (variant: every cell replaces the maximum)
NewMax_Always(h, max_score) == TRUE

\* (variant: an equal score replaces the maximum)
NewMax_OrEqual(h, max_score) == h >= max_score

\* if H_matrix[i, j] > max_score
NewMax(h, max_score) == h > max_score

\* the body of the inner loop for cell (st.i, st.j), and the step to the
\* next column
DPCell(S, gap_open, gap_extend, score_threshold, st) ==
    LET i     == st.i
        j     == st.j
        sim   == Sim(S, score_threshold, i, j)
        match == st.H_matrix[<<i - 1, j - 1>>] + sim
        gap_h == st.H_matrix[<<i - 1, j>>]
                    + GapPenalty(st.traceback[<<i - 1, j>>], UP, gap_open, gap_extend)
        gap_b == st.H_matrix[<<i, j - 1>>]
                    + GapPenalty(st.traceback[<<i, j - 1>>], LEFT, gap_open, gap_extend)
        scores == [c \in 0 .. 3 |->
                     CASE c = 0 -> 0 [] c = 1 -> match [] c = 2 -> gap_h [] OTHER -> gap_b]
        best  == ArgMax(scores)
        newmax == NewMax(scores[best], st.max_score)
    IN  [ H_matrix  |-> [st.H_matrix EXCEPT ![<<i, j>>] = scores[best]],
          traceback |-> [st.traceback EXCEPT ![<<i, j>>] = best],
          max_score |-> IF newmax THEN scores[best] ELSE st.max_score,
          max_pos   |-> IF newmax THEN <<i, j>> ELSE st.max_pos,
          i         |-> i,
          j         |-> j + 1 ]

\* the inner loop, for j in range(1, n_bact + 1), from column st.j on; at its
\* end the outer loop moves to the next row
RECURSIVE DPRow(_, _, _, _, _)
DPRow(S, gap_open, gap_extend, score_threshold, st) ==
    IF st.j > S.shape[2]
    THEN [st EXCEPT !.i = st.i + 1, !.j = 1]
    ELSE DPRow(S, gap_open, gap_extend, score_threshold,
               DPCell(S, gap_open, gap_extend, score_threshold, st))

\* the outer loop, for i in range(1, n_human + 1), from row st.i on
RECURSIVE DPFill(_, _, _, _, _)
DPFill(S, gap_open, gap_extend, score_threshold, st) ==
    IF st.i > S.shape[1]
    THEN st
    ELSE DPFill(S, gap_open, gap_extend, score_threshold,
                DPRow(S, gap_open, gap_extend, score_threshold, st))

\* (variant: the pair is left 1-indexed)
Pair_OneBased(i, j) == <<i, j>>

\* the pair appended for a match at cell (i, j) of the score table
Pair(i, j) == <<i - 1, j - 1>>

\* (variant: gap cells emit a pair too)
RECURSIVE Trace_GapsEmit(_, _, _, _)
Trace_GapsEmit(st, i, j, acc) ==
    IF i > 0 /\ j > 0 /\ st.H_matrix[<<i, j>>] > 0
    THEN LET next == [acc EXCEPT !.alignment = Append(acc.alignment, Pair(i, j)),
                                 !.path = Append(acc.path, <<i, j>>)]
         IN  CASE st.traceback[<<i, j>>] = DIAGONAL -> Trace_GapsEmit(st, i - 1, j - 1, next)
               [] st.traceback[<<i, j>>] = UP -> Trace_GapsEmit(st, i - 1, j, next)
               [] st.traceback[<<i, j>>] = LEFT -> Trace_GapsEmit(st, i, j - 1, next)
               [] OTHER -> [acc EXCEPT !.last = <<i, j>>]
    ELSE [acc EXCEPT !.last = <<i, j>>]

\* the traceback loop; path is the sequence of cells visited, alignment the
\* pairs appended so far
RECURSIVE Trace(_, _, _, _)
Trace(st, i, j, acc) ==
    IF i > 0 /\ j > 0 /\ st.H_matrix[<<i, j>>] > 0
    THEN CASE st.traceback[<<i, j>>] = DIAGONAL ->
                Trace(st, i - 1, j - 1,
                      [acc EXCEPT !.alignment = Append(acc.alignment, Pair(i, j)),
                                  !.path = Append(acc.path, <<i, j>>)])
           [] st.traceback[<<i, j>>] = UP ->
                Trace(st, i - 1, j,
                      [acc EXCEPT !.path = Append(acc.path, <<i, j>>)])
           [] st.traceback[<<i, j>>] = LEFT ->
                Trace(st, i, j - 1,
                      [acc EXCEPT !.path = Append(acc.path, <<i, j>>)])
           [] OTHER -> [acc EXCEPT !.last = <<i, j>>]
    ELSE [acc EXCEPT !.last = <<i, j>>]

\* (variant: the list is returned in traceback order)
Reverse_Not(s) == s

\* alignment.reverse()
Reverse(s) == [k \in 1 .. Len(s) |-> s[Len(s) + 1 - k]]

\* the whole function: max_score, alignment and H_matrix are what it
\* returns; traceback, max_pos, path (cells the traceback visited, in visiting
\* order) and last (where the traceback stopped) are its locals at return
smith_waterman_chunks(S, gap_open, gap_extend, score_threshold) ==
    LET st == DPFill(S, gap_open, gap_extend, score_threshold,
                     DPInit(S.shape[1], S.shape[2]))
        tr == Trace(st, st.max_pos[1], st.max_pos[2],
                    [alignment |-> <<>>, path |-> <<>>, last |-> st.max_pos])
    IN  [ max_score |-> st.max_score,
          alignment |-> Reverse(tr.alignment),
          H_matrix  |-> st.H_matrix,
          traceback |-> st.traceback,
          max_pos   |-> st.max_pos,
          path      |-> tr.path,
          last      |-> tr.last ]

\* --------------------------------------------------- find_multiple_alignments
\* (variant: nothing is masked)
Mask_None(W, alignment) == W

\* (variant: the whole row of every aligned pair is masked)
Mask_Rows(W, alignment) ==
    [W EXCEPT !.a = [p \in DOMAIN W.a |->
                        IF \E k \in 1 .. Len(alignment) : alignment[k][1] = p[1]
                        THEN 0 ELSE W.a[p]]]

\* for i, j in alignment: S_work[i, j] = 0
Mask(W, alignment) ==
    [W EXCEPT !.a = [p \in DOMAIN W.a |->
                        IF \E k \in 1 .. Len(alignment) : alignment[k] = p
                        THEN 0 ELSE W.a[p]]]

\* ------------------------------------------------------------------- state
VARIABLES
    S,               \* the caller's similarity matrix
    pc,              \* "idle", "sw_done" (smith_waterman_chunks returned),
                     \* "loop" (find_multiple_alignments at the top of its loop),
                     \* "returned" (find_multiple_alignments returned)
    gap_open, gap_extend, score_threshold,      \* arguments of the running call
    min_score, min_chunks, max_alignments,
    result,          \* what smith_waterman_chunks returned (single call)
    S_work,          \* find_multiple_alignments: the working copy
    alignments,      \* find_multiple_alignments: list of <<score, alignment>>
    passes,          \* find_multiple_alignments: loop iterations started
    chunker          \* chunk_protein: its arguments, locals and position

vars == <<S, pc, gap_open, gap_extend, score_threshold, min_score, min_chunks,
          max_alignments, result, S_work, alignments, passes, chunker>>

\* no call of chunk_protein is running
NotChunking == [pc |-> "none"]

NoResult == [max_score |-> 0, alignment |-> <<>>]

\* the state before a call, given the caller's matrix
Idle ==
    /\ pc = "idle"
    /\ gap_open = GAP_OPEN
    /\ gap_extend = GAP_EXTEND
    /\ score_threshold = SCORE_THRESHOLD
    /\ min_score = 10
    /\ min_chunks = 3
    /\ max_alignments = 0
    /\ result = NoResult
    /\ S_work = S
    /\ alignments = <<>>
    /\ passes = 0

InitAlign ==
    /\ (IsSmallMatrix(S, MaxRows, MaxCols, MaxHits) \/ S \in AlignScenarios)
    /\ Idle
    /\ chunker = NotChunking

Init ==
    /\ (IsSmallMatrix(S, FindRows, FindCols, FindHits) \/ S \in Scenarios)
    /\ Idle
    /\ chunker = NotChunking

\* a call smith_waterman_chunks(S, go, ge, thr)
Align ==
    /\ pc = "idle"
    /\ \E g \in GapPairs, thr \in Thresholds :
        /\ gap_open' = g[1]
        /\ gap_extend' = g[2]
        /\ score_threshold' = thr
        /\ result' = smith_waterman_chunks(S, g[1], g[2], thr)
    /\ pc' = "sw_done"
    /\ UNCHANGED <<S, min_score, min_chunks, max_alignments, S_work, alignments, passes,
                   chunker>>

\* a call find_multiple_alignments(S, go, ge, ms, mc, n) up to the loop:
\* alignments = [], S_work = S.copy()
FindCall ==
    /\ pc = "idle"
    /\ \E g \in GapPairs, acc \in Acceptance, n \in 0 .. MaxCount :
        /\ gap_open' = g[1]
        /\ gap_extend' = g[2]
        /\ min_score' = acc[1]
        /\ min_chunks' = acc[2]
        /\ max_alignments' = n
    /\ score_threshold' = SCORE_THRESHOLD
    /\ alignments' = <<>>
    /\ S_work' = S
    /\ passes' = 0
    /\ pc' = "loop"
    /\ UNCHANGED <<S, result, chunker>>

\* (variant: the pass runs with threshold 0)
Pass_ZeroThreshold == smith_waterman_chunks(S_work, gap_open, gap_extend, 0)

\* the aligner pass of the current loop iteration; the threshold is not passed,
\* so it is the default
Pass == smith_waterman_chunks(S_work, gap_open, gap_extend, SCORE_THRESHOLD)
\* (variant: a score equal to min_score is too low)
TooLow_Inclusive(score, alignment) == score <= min_score \/ Len(alignment) < min_chunks
\* (variant: break only when both tests fail)
TooLow_Both(score, alignment) == score < min_score /\ Len(alignment) < min_chunks
\* (variant: one iteration too many)
LoopContinues_Inclusive(n, max) == n <= max

\* the break test on a pass with this score and alignment
TooLow(score, alignment) == score < min_score \/ Len(alignment) < min_chunks
\* for _ in range(max_alignments), after n iterations
LoopContinues(n, max) == n < max

\* (variant: S_work = S, the working matrix is the caller's array)
SharesStorage_NoCopy == TRUE

\* whether S_work and the caller's S are one array: S.copy() makes a new one
SharesStorage == FALSE

\* the loop as a function of the working matrix W, the list acc built so far
\* and the number k of iterations done, with the running call's parameters
RECURSIVE FindLoop(_, _, _, _)
FindLoop(W, acc, k, max) ==
    IF ~LoopContinues(k, max) THEN acc
    ELSE LET r == smith_waterman_chunks(W, gap_open, gap_extend, SCORE_THRESHOLD)
         IN  IF TooLow(r.max_score, r.alignment) THEN acc
             ELSE FindLoop(Mask(W, r.alignment),
                           Append(acc, <<r.max_score, r.alignment>>), k + 1, max)

\* what find_multiple_alignments(M, gap_open, gap_extend, min_score, min_chunks,
\* max) returns, the other arguments being those of the running call
find_multiple_alignments(M, max) == FindLoop(M, <<>>, 0, max)

\* one iteration that keeps its alignment and masks it; a write to S_work
\* reaches S when they are one array
FindAccept ==
    /\ pc = "loop"
    /\ LoopContinues(passes, max_alignments)
    /\ ~TooLow(Pass.max_score, Pass.alignment)
    /\ alignments' = Append(alignments, <<Pass.max_score, Pass.alignment>>)
    /\ S_work' = Mask(S_work, Pass.alignment)
    /\ S' = IF SharesStorage THEN Mask(S, Pass.alignment) ELSE S
    /\ passes' = passes + 1
    /\ UNCHANGED <<pc, gap_open, gap_extend, score_threshold, min_score,
                   min_chunks, max_alignments, result, chunker>>

\* the iteration that breaks out of the loop, and the return
FindBreak ==
    /\ pc = "loop"
    /\ LoopContinues(passes, max_alignments)
    /\ TooLow(Pass.max_score, Pass.alignment)
    /\ passes' = passes + 1
    /\ pc' = "returned"
    /\ UNCHANGED <<S, gap_open, gap_extend, score_threshold, min_score,
                   min_chunks, max_alignments, result, S_work, alignments, chunker>>

\* range(max_alignments) is exhausted, and the return
FindExhausted ==
    /\ pc = "loop"
    /\ ~LoopContinues(passes, max_alignments)
    /\ pc' = "returned"
    /\ UNCHANGED <<S, gap_open, gap_extend, score_threshold, min_score,
                   min_chunks, max_alignments, result, S_work, alignments, passes,
                   chunker>>

NextAlign == Align
Next == Align \/ FindCall \/ FindAccept \/ FindBreak \/ FindExhausted

\* calls of either function on the smaller matrices
Spec == Init /\ [][Next]_vars
\* calls of smith_waterman_chunks on the larger matrices
SpecAlign == InitAlign /\ [][NextAlign]_vars

\* ------------------------------------------------------------ chunk_protein
\* default chunk_len and stride, in residues
CHUNK_LEN == 10
CHUNK_STRIDE == 5

\* the length of the sequence test_chunking passes
TestLength == 100

\* a sequence of L residues, each named by its position
Residues(L) == [k \in 1 .. L |-> k]

\* min(a, b)
Min(a, b) == IF a <= b THEN a ELSE b

\* sequence[start:end] for 0 <= start: the residues at positions
\* start + 1 .. end, the slice stopping at the end of the sequence
Slice(sequence, start, end) == SubSeq(sequence, start + 1, Min(end, Len(sequence)))

ChunkEnd_Unclipped(start, chunk_len, L) == start + chunk_len

\* end = min(start + chunk_len, L)
ChunkEnd(start, chunk_len, L) == Min(start + chunk_len, L)

\* one row of the returned table
ChunkRow(protein_id, chunk_index, start, end, chunk_seq) ==
    [protein_id |-> protein_id, chunk_index |-> chunk_index, start |-> start,
     end |-> end, chunk_seq |-> chunk_seq]

\* chunk_protein(protein_id, sequence, chunk_len, stride) has been called:
\* chunks = [] and L = len(sequence); start, chunk_index and end are not
\* assigned yet and read 0 here
ChunkCall(protein_id, L, chunk_len, stride) ==
    [pc |-> "start", protein_id |-> protein_id, sequence |-> Residues(L),
     chunk_len |-> chunk_len, stride |-> stride, L |-> L,
     start |-> 0, chunk_index |-> 0, end |-> 0, chunks |-> <<>>]

\* the arguments of the calls: every small length, chunk_len and stride,
\* and the call of test_chunking with the default chunk_len and stride
ChunkInputs ==
    { <<L, chunk_len, stride>> :
        L \in 0 .. MaxLen, chunk_len \in 1 .. MaxChunkLen, stride \in 1 .. MaxStride }
    \cup { <<TestLength, CHUNK_LEN, CHUNK_STRIDE>> }

InitChunk ==
    /\ S = TestMatrix
    /\ Idle
    /\ \E a \in ChunkInputs : chunker = ChunkCall("TEST_PROTEIN", a[1], a[2], a[3])

\* L <= chunk_len: the whole sequence is the only chunk
ChunkShort ==
    /\ chunker.pc = "start"
    /\ chunker.L <= chunker.chunk_len
    /\ chunker' = [chunker EXCEPT
            !.chunks = Append(@, ChunkRow(chunker.protein_id, 0, 1, chunker.L,
                                          chunker.sequence)),
            !.pc = "done"]
    /\ UNCHANGED <<S, pc, gap_open, gap_extend, score_threshold, min_score,
                   min_chunks, max_alignments, result, S_work, alignments, passes>>

\* L > chunk_len: start = 0 and chunk_index = 0 before the loop
ChunkEnter ==
    /\ chunker.pc = "start"
    /\ ~(chunker.L <= chunker.chunk_len)
    /\ chunker' = [chunker EXCEPT !.start = 0, !.chunk_index = 0, !.pc = "loop"]
    /\ UNCHANGED <<S, pc, gap_open, gap_extend, score_threshold, min_score,
                   min_chunks, max_alignments, result, S_work, alignments, passes>>

\* one iteration of the while loop, which breaks once end = L
ChunkStep ==
    /\ chunker.pc = "loop"
    /\ chunker.start < chunker.L
    /\ LET end == ChunkEnd(chunker.start, chunker.chunk_len, chunker.L)
           subseq == Slice(chunker.sequence, chunker.start, end)
       IN chunker' = [chunker EXCEPT
              !.end = end,
              !.chunks = Append(@, ChunkRow(chunker.protein_id, chunker.chunk_index,
                                            chunker.start + 1, end, subseq)),
              !.chunk_index = @ + 1,
              !.start = @ + chunker.stride,
              !.pc = IF end = chunker.L THEN "done" ELSE "loop"]
    /\ UNCHANGED <<S, pc, gap_open, gap_extend, score_threshold, min_score,
                   min_chunks, max_alignments, result, S_work, alignments, passes>>

\* the while test fails: start has passed the end of the sequence
ChunkExit ==
    /\ chunker.pc = "loop"
    /\ ~(chunker.start < chunker.L)
    /\ chunker' = [chunker EXCEPT !.pc = "done"]
    /\ UNCHANGED <<S, pc, gap_open, gap_extend, score_threshold, min_score,
                   min_chunks, max_alignments, result, S_work, alignments, passes>>

NextChunk == ChunkShort \/ ChunkEnter \/ ChunkStep \/ ChunkExit

\* calls of chunk_protein; a call that has started runs on
SpecChunk == InitChunk /\ [][NextChunk]_vars /\ WF_vars(NextChunk)

\* ------------------------------------------------------------------ claims
\* the index pairs of the k-th returned alignment
PairsOf(k) == { alignments[k][2][n] : n \in 1 .. Len(alignments[k][2]) }

\* C1: the alignments find_multiple_alignments has collected are pairwise
\* disjoint: no index pair occurs in two different alignments.
C1_Disjoint ==
    \A k1, k2 \in 1 .. Len(alignments) :
        k1 # k2 => PairsOf(k1) \cap PairsOf(k2) = {}

\* C2: the scores of the collected alignments are non-increasing in discovery
\* order.
C2_NonIncreasing ==
    \A k \in 1 .. Len(alignments) - 1 : alignments[k][1] >= alignments[k + 1][1]

\* S with cell p raised or lowered to v
SetCell(m, p, v) == [m EXCEPT !.a[p] = v]

\* C3: raising one similarity value, the others and the parameters fixed, never
\* lowers the returned max score.
C3_Monotone ==
    pc = "sw_done" =>
        \A p \in DOMAIN S.a : \A v \in Vals :
            v > S.a[p] =>
                smith_waterman_chunks(SetCell(S, p, v), gap_open, gap_extend,
                                      score_threshold).max_score >= result.max_score

\* The best score of a local alignment path that ends at cell (i, j) of the
\* score table, i, j >= 1, with a step of kind t (DIAGONAL, UP or LEFT).  A
\* path starts at any cell with score 0 and its steps stay on the table; a
\* DIAGONAL step into (i, j) scores S[i-1][j-1] - threshold; a run of k gap
\* steps in one direction costs gapOpen + (k-1)*gapExtend.
MaxOf(set) == CHOOSE m \in set : \A x \in set : x <= m
RECURSIVE BestPath(_, _, _, _, _, _, _)
BestPath(m, go, ge, thr, i, j, t) ==
    LET \* the scores a path can have on reaching (x, y): 0 for the path that
        \* starts there, or those of the paths that end there with a step in kinds
        Reaching(x, y, kinds) ==
            {0} \cup (IF x >= 1 /\ y >= 1
                      THEN { BestPath(m, go, ge, thr, x, y, u) : u \in kinds }
                      ELSE {})
    IN  IF t = DIAGONAL
        THEN MaxOf(Reaching(i - 1, j - 1, {DIAGONAL, UP, LEFT})) + m.a[<<i - 1, j - 1>>] - thr
        ELSE IF t = UP
        THEN MaxOf({ v + go : v \in Reaching(i - 1, j, {DIAGONAL, LEFT}) }
                   \cup (IF i - 1 >= 1 THEN {BestPath(m, go, ge, thr, i - 1, j, UP) + ge} ELSE {}))
        ELSE MaxOf({ v + go : v \in Reaching(i, j - 1, {DIAGONAL, UP}) }
                   \cup (IF j - 1 >= 1 THEN {BestPath(m, go, ge, thr, i, j - 1, LEFT) + ge} ELSE {}))
\* the best score of a local alignment ending at (i, j), 0 if none is beneficial
BestEnding(m, go, ge, thr, i, j) ==
    MaxOf({0} \cup { BestPath(m, go, ge, thr, i, j, t) : t \in {DIAGONAL, UP, LEFT} })

\* C4: every H[i][j] is the best score of a local alignment path ending at
\* (i, j), or 0, and the returned max score is the best score over all local
\* alignments.
C4_Optimal ==
    pc = "sw_done" =>
        LET inner == (1 .. S.shape[1]) \X (1 .. S.shape[2])
            best(q) == BestEnding(S, gap_open, gap_extend, score_threshold, q[1], q[2])
        IN  /\ \A q \in inner : result.H_matrix[q] = best(q)
            /\ \A q \in inner : result.max_score >= best(q)
            /\ result.max_score > 0 => \E q \in inner : result.max_score = best(q)

\* C5: on the matrix of test_alignment with the default parameters the
\* alignment is the diagonal [(0,0),(1,1),(2,2)] and the score is the sum of the
\* three diagonal steps, 0.4 + 0.4 + 0.3 = 1.1.
C5_Witness ==
    /\ pc = "sw_done"
    /\ S = TestMatrix
    /\ gap_open = GAP_OPEN /\ gap_extend = GAP_EXTEND
    /\ score_threshold = SCORE_THRESHOLD
C5_TestMatrix ==
    C5_Witness =>
        /\ result.alignment = << <<0, 0>>, <<1, 1>>, <<2, 2>> >>
        /\ result.max_score = 11
        /\ result.max_score = (9 - 5) + (9 - 5) + (8 - 5)

\* every entry of S is at most the threshold
AllAtMostThreshold == \A p \in DOMAIN S.a : S.a[p] <= score_threshold

\* C6: when every entry of S is at most the threshold and both gap penalties
\* are negative, the score is 0 and the alignment is empty.
C6_BelowThreshold ==
    (pc = "sw_done" /\ AllAtMostThreshold /\ gap_open < 0 /\ gap_extend < 0) =>
        (result.max_score = 0 /\ result.alignment = <<>>)
C6_Witness ==
    /\ pc = "sw_done"
    /\ S = Constant(3, 3, 4)
    /\ score_threshold = 5 /\ gap_open < 0 /\ gap_extend < 0
    /\ result.max_score = 0

\* S is n x n with threshold + c on the diagonal, c > 0, and 0 elsewhere
IsIdentityLike ==
    /\ S.shape[1] = S.shape[2]
    /\ \A p \in DOMAIN S.a :
          IF p[1] = p[2] THEN S.a[p] > score_threshold /\ S.a[p] = S.a[<<0, 0>>]
          ELSE S.a[p] = 0
\* what C7 expects on an identity-like S
DiagonalResult ==
    LET n == S.shape[1]
        c == IF n = 0 THEN 0 ELSE S.a[<<0, 0>>] - score_threshold
    IN  /\ result.alignment = [k \in 1 .. n |-> <<k - 1, k - 1>>]
        /\ result.max_score = n * c

\* C7 as stated: on every identity-like matrix, whatever the gap penalties
\* and the threshold, the alignment is the diagonal and the score n*c.
C7_AnyParameters == (pc = "sw_done" /\ IsIdentityLike) => DiagonalResult

\* C7 as amended: on every identity-like matrix, with negative gap penalties
\* and a threshold >= 0, the alignment is the diagonal and the score n*c.
C7_Identity ==
    (pc = "sw_done" /\ IsIdentityLike /\ gap_open < 0 /\ gap_extend < 0
        /\ score_threshold >= 0) => DiagonalResult
C7_Witness ==
    /\ pc = "sw_done" /\ IsIdentityLike /\ S.shape[1] = 3
    /\ gap_open < 0 /\ gap_extend < 0 /\ score_threshold = 5
    /\ result.max_score = 3 * 4

\* a sequence of pairs strictly increasing in both coordinates
StrictlyIncreasing(al) ==
    \A k \in 1 .. Len(al) - 1 : al[k][1] < al[k + 1][1] /\ al[k][2] < al[k + 1][2]

\* C8: the alignment smith_waterman_chunks returns, and every alignment
\* find_multiple_alignments collects, is strictly increasing in both
\* coordinates.
C8_Increasing ==
    /\ StrictlyIncreasing(result.alignment)
    /\ \A k \in 1 .. Len(alignments) : StrictlyIncreasing(alignments[k][2])
\* an alignment of two pairs with a gap between them, from either function
C8_Witness ==
    \/ pc = "sw_done" /\ Len(result.alignment) >= 2
          /\ Len(result.path) > Len(result.alignment)
    \/ pc = "returned" /\ Len(alignments) >= 1 /\ Len(alignments[1][2]) >= 3

\* the first aligner pass, on S itself
FirstPass == smith_waterman_chunks(S, gap_open, gap_extend, SCORE_THRESHOLD)

\* C9: every collected (score, alignment) has score >= min_score and at least
\* min_chunks pairs, and the result is empty when the first pass fails the test.
C9_Accepted ==
    /\ \A k \in 1 .. Len(alignments) :
          alignments[k][1] >= min_score /\ Len(alignments[k][2]) >= min_chunks
    /\ (pc = "returned"
          /\ (FirstPass.max_score < min_score \/ Len(FirstPass.alignment) < min_chunks))
        => alignments = <<>>
\* a run that kept one alignment and broke out on the next pass
C9_Witness ==
    /\ pc = "returned" /\ Len(alignments) = 1 /\ passes = 2
    /\ min_score = 10 /\ min_chunks = 3

\* C10: the result never has more than max_alignments elements.
C10_AtMostMaxCount == Len(alignments) <= max_alignments
\* a run that was stopped by the cap with two non-empty alignments
C10_Witness ==
    /\ pc = "returned" /\ max_alignments = 2 /\ Len(alignments) = 2
    /\ alignments[2][2] # <<>>

\* C11: masking composes. For a call with max_alignments = 2 that has returned:
\* when the same call with max_alignments = 1 returns one alignment A1, and S1
\* is S with the cells of A1 set to 0, the call on S1 with max_alignments = 1
\* returns exactly the second element of the returned list, and returns
\* nothing exactly when the list has no second element.
C11_MaskingComposes ==
    (pc = "returned" /\ max_alignments = 2) =>
        LET one == find_multiple_alignments(S, 1)
        IN  Len(one) = 1 =>
              LET A1 == one[1][2]
                  S1 == [S EXCEPT !.a = [p \in DOMAIN S.a |->
                            IF \E k \in 1 .. Len(A1) : A1[k] = p THEN 0 ELSE S.a[p]]]
                  again == find_multiple_alignments(S1, 1)
              IN  /\ Len(alignments) >= 1
                  /\ alignments[1] = one[1]
                  /\ Len(alignments) >= 2 => again = <<alignments[2]>>
                  /\ Len(alignments) < 2 => again = <<>>

\* a returned call with two different non-empty alignments
C11_Witness ==
    /\ pc = "returned"
    /\ max_alignments = 2
    /\ Len(alignments) = 2
    /\ alignments[1][2] # <<>>
    /\ alignments[2][2] # <<>>
    /\ alignments[1] # alignments[2]

\* C12: find_multiple_alignments never changes the caller's matrix: no step of a
\* call, whatever it masks in the working copy, changes a cell of S.
C12_CallerMatrixKept == [][S' = S]_vars

\* a returned call that masked cells which are still non-zero in S
C12_Witness ==
    /\ pc = "returned"
    /\ Len(alignments) = 2
    /\ \E p \in DOMAIN S.a : S.a[p] # 0 /\ S_work.a[p] = 0

\* C13: on a 0 x k or a k x 0 matrix smith_waterman_chunks returns score 0, an
\* empty alignment and the all-zero (n1+1) x (n2+1) score table: the call
\* completes, with no cell computed and no traceback step.
C13_EmptyMatrix ==
    (pc = "sw_done" /\ (S.shape[1] = 0 \/ S.shape[2] = 0)) =>
        /\ result.max_score = 0
        /\ result.alignment = <<>>
        /\ result.path = <<>>
        /\ result.H_matrix = [p \in (0 .. S.shape[1]) \X (0 .. S.shape[2]) |-> 0]

\* a completed call on a 0 x k matrix with k >= 2
C13_Witness ==
    /\ pc = "sw_done"
    /\ S.shape[1] = 0
    /\ S.shape[2] >= 2
    /\ result.max_score = 0

\* C14: the passes of find_multiple_alignments run the aligner with the default
\* threshold of a single-alignment call: whenever the list is not empty, its
\* first element is the (score, alignment) of
\* smith_waterman_chunks(S, gap_open, gap_extend) with the default threshold.
C14_DefaultThreshold ==
    (pc \in {"loop", "returned"} /\ Len(alignments) >= 1) =>
        LET single == smith_waterman_chunks(S, gap_open, gap_extend, SCORE_THRESHOLD)
        IN  /\ alignments[1][1] = single.max_score
            /\ alignments[1][2] = single.alignment

\* a returned call whose first alignment is not empty and scores above 0
C14_Witness ==
    /\ pc = "returned"
    /\ Len(alignments) >= 1
    /\ alignments[1][1] > 0
    /\ Len(alignments[1][2]) >= 2

\* C15: the score returned by smith_waterman_chunks is >= 0, the returned table
\* H has (n1+1) x (n2+1) entries, its row 0 and column 0 are 0 and every
\* entry is >= 0.
C15_NonNegative ==
    pc = "sw_done" =>
        /\ result.max_score >= 0
        /\ DOMAIN result.H_matrix = (0 .. S.shape[1]) \X (0 .. S.shape[2])
        /\ \A p \in DOMAIN result.H_matrix :
            /\ result.H_matrix[p] >= 0
            /\ (p[1] = 0 \/ p[2] = 0) => result.H_matrix[p] = 0

\* a completed call with a positive score where some cell below the threshold
\* has H = 0 although the cell diagonally before it has H > 0
C15_Witness ==
    /\ pc = "sw_done"
    /\ result.max_score > 0
    /\ \E p \in DOMAIN S.a :
        /\ p[1] >= 1 /\ p[2] >= 1
        /\ S.a[p] < score_threshold
        /\ result.H_matrix[<<p[1], p[2]>>] > 0
        /\ result.H_matrix[<<p[1] + 1, p[2] + 1>>] = 0

\* C16: a call of find_multiple_alignments returns after at most max_alignments
\* aligner passes: the number of passes started never exceeds max_alignments,
\* every step taken in the loop either returns or starts one more counted
\* pass, and after max_alignments passes the loop cannot continue. The
\* traceback loop of every aligner pass (of the single call, and of the pass
\* the loop is about to run) visits at most n1 + n2 cells.
C16_Terminates ==
    /\ [](/\ passes <= max_alignments
          /\ (pc = "loop" /\ passes >= max_alignments)
                => ~LoopContinues(passes, max_alignments)
          /\ pc = "sw_done" => Len(result.path) <= S.shape[1] + S.shape[2]
          /\ pc = "loop" => Len(Pass.path) <= S_work.shape[1] + S_work.shape[2])
    /\ [][pc = "loop" =>
            \/ pc' = "returned"
            \/ pc' = "loop" /\ passes' = passes + 1 /\ passes' <= max_alignments]_vars

\* a call that returned after exactly max_alignments = 2 passes, the second
\* with a traceback of at least 3 cells
C16_Witness ==
    /\ pc = "returned"
    /\ max_alignments = 2
    /\ passes = 2
    /\ Len(alignments) = 2
    /\ Len(alignments[2][2]) >= 3

\* C17: after the dynamic program, every cell (i, j) with 1 <= i <= n1 and
\* 1 <= j <= n2 has H[i][j] = max(0, H[i-1][j-1] + S[i-1][j-1] - threshold,
\* H[i-1][j] + gUp, H[i][j-1] + gLt), where gUp is gap_extend if the tag of
\* (i-1, j) is UP and gap_open otherwise, and gLt is gap_extend if the tag of
\* (i, j-1) is LEFT and gap_open otherwise.
C17_Recurrence ==
    pc = "sw_done" =>
        \A i \in 1 .. S.shape[1], j \in 1 .. S.shape[2] :
            LET H    == result.H_matrix
                tag  == result.traceback
                diag == H[<<i - 1, j - 1>>] + S.a[<<i - 1, j - 1>>] - score_threshold
                gUp  == IF tag[<<i - 1, j>>] = UP THEN gap_extend ELSE gap_open
                gLt  == IF tag[<<i, j - 1>>] = LEFT THEN gap_extend ELSE gap_open
            IN  H[<<i, j>>] = MaxOf({0, diag, H[<<i - 1, j>>] + gUp, H[<<i, j - 1>>] + gLt})

\* a completed call with gap_extend # gap_open in which some cell got its
\* positive value by extending an UP gap
C17_Witness ==
    /\ pc = "sw_done"
    /\ gap_extend # gap_open
    /\ \E i \in 2 .. S.shape[1], j \in 1 .. S.shape[2] :
        /\ result.traceback[<<i - 1, j>>] = UP
        /\ result.traceback[<<i, j>>] = UP
        /\ result.H_matrix[<<i, j>>] = result.H_matrix[<<i - 1, j>>] + gap_extend
        /\ result.H_matrix[<<i, j>>] > 0

\* the four candidates of cell (i, j), indexed by tag, recomputed from the
\* final table and tags
Candidates(i, j) ==
    LET H   == result.H_matrix
        tag == result.traceback
    IN  [c \in 0 .. 3 |->
            CASE c = STOP -> 0
              [] c = DIAGONAL ->
                    H[<<i - 1, j - 1>>] + S.a[<<i - 1, j - 1>>] - score_threshold
              [] c = UP ->
                    H[<<i - 1, j>>]
                      + (IF tag[<<i - 1, j>>] = UP THEN gap_extend ELSE gap_open)
              [] OTHER ->
                    H[<<i, j - 1>>]
                      + (IF tag[<<i, j - 1>>] = LEFT THEN gap_extend ELSE gap_open)]

\* C18: the tag recorded for a cell is the first of STOP, DIAGONAL, UP, LEFT
\* whose candidate equals the maximum of the four candidates.
C18_TieBreak ==
    pc = "sw_done" =>
        \A i \in 1 .. S.shape[1], j \in 1 .. S.shape[2] :
            LET cand == Candidates(i, j)
                top  == MaxOf({cand[c] : c \in 0 .. 3})
                t    == result.traceback[<<i, j>>]
            IN  /\ t \in 0 .. 3
                /\ cand[t] = top
                /\ \A c \in 0 .. 3 : c < t => cand[c] < top

\* a completed call with a cell where the UP and LEFT gaps tie for a positive
\* maximum and the tag is UP
C18_Witness ==
    /\ pc = "sw_done"
    /\ \E i \in 1 .. S.shape[1], j \in 1 .. S.shape[2] :
        LET cand == Candidates(i, j)
        IN  /\ cand[UP] = cand[LEFT]
            /\ cand[UP] > 0
            /\ cand[UP] > cand[DIAGONAL]
            /\ result.traceback[<<i, j>>] = UP

\* p is before q in row-major scan order, or is q
RowMajorBefore(p, q) == p[1] < q[1] \/ (p[1] = q[1] /\ p[2] <= q[2])

\* the cells of the returned table whose value is the maximum of the table
TopCells == { p \in DOMAIN result.H_matrix :
                \A q \in DOMAIN result.H_matrix :
                    result.H_matrix[q] <= result.H_matrix[p] }

\* C19: the position where the traceback starts is the first cell, in
\* row-major scan order, whose H value equals the maximum of H (which is the
\* returned score); when that maximum is positive the first cell the
\* traceback visits is that cell.
C19_EarliestMaximum ==
    pc = "sw_done" =>
        /\ result.max_pos \in TopCells
        /\ \A q \in TopCells : RowMajorBefore(result.max_pos, q)
        /\ result.H_matrix[result.max_pos] = result.max_score
        /\ result.max_score > 0 => result.path[1] = result.max_pos
        /\ result.max_score = 0 => result.path = <<>>

\* a completed call whose table has its positive maximum at two cells or more
C19_Witness ==
    /\ pc = "sw_done"
    /\ result.max_score > 0
    /\ Cardinality(TopCells) >= 2
    /\ result.path # <<>>

\* the pairs (i-1, j-1) of the DIAGONAL-tagged cells met when following the
\* tags of the returned table from cell (i, j) until a cell with H = 0 or with
\* i = 0 or j = 0, in the order met
RECURSIVE DiagonalPairs(_, _)
DiagonalPairs(i, j) ==
    IF i = 0 \/ j = 0 \/ result.H_matrix[<<i, j>>] = 0 THEN <<>>
    ELSE CASE result.traceback[<<i, j>>] = DIAGONAL ->
                <<<<i - 1, j - 1>>>> \o DiagonalPairs(i - 1, j - 1)
           [] result.traceback[<<i, j>>] = UP -> DiagonalPairs(i - 1, j)
           [] result.traceback[<<i, j>>] = LEFT -> DiagonalPairs(i, j - 1)
           [] OTHER -> <<>>

\* C20: the returned alignment is exactly the pairs (i-1, j-1) of the
\* DIAGONAL-tagged cells on the path that follows the tags from the
\* maximum-score cell, listed in the reverse of the order met, which is
\* increasing order; UP and LEFT cells contribute no pair.
C20_DiagonalPairs ==
    pc = "sw_done" =>
        LET met == DiagonalPairs(result.max_pos[1], result.max_pos[2])
            n   == Len(met)
        IN  /\ Len(result.alignment) = n
            /\ \A k \in 1 .. n : result.alignment[k] = met[n + 1 - k]
            /\ \A k \in 1 .. n - 1 :
                /\ result.alignment[k][1] < result.alignment[k + 1][1]
                /\ result.alignment[k][2] < result.alignment[k + 1][2]

\* a completed call whose traceback path has a gap cell between two
\* DIAGONAL cells
C20_Witness ==
    /\ pc = "sw_done"
    /\ Len(result.alignment) >= 2
    /\ \E k \in 2 .. Len(result.path) - 1 :
        /\ result.traceback[result.path[k]] \in {UP, LEFT}
        /\ result.traceback[result.path[k - 1]] = DIAGONAL
        /\ result.traceback[result.path[k + 1]] = DIAGONAL

\* C21: whenever smith_waterman_chunks returns score 0, no cell of H is
\* positive, the returned alignment is empty and the traceback makes no step:
\* it starts and ends at position (0, 0).
C21_ZeroScore ==
    (pc = "sw_done" /\ result.max_score = 0) =>
        /\ \A p \in DOMAIN result.H_matrix : result.H_matrix[p] = 0
        /\ result.alignment = <<>>
        /\ result.path = <<>>
        /\ result.max_pos = <<0, 0>>
        /\ result.last = <<0, 0>>

\* a completed call with score 0 on a matrix that has a non-zero cell
C21_Witness ==
    /\ pc = "sw_done"
    /\ result.max_score = 0
    /\ S.shape[1] >= 2
    /\ S.shape[2] >= 2
    /\ \E p \in DOMAIN S.a : S.a[p] # 0

\* C22: during and after a call of find_multiple_alignments the working matrix
\* has the shape of S, is 0 on every pair of an accepted alignment and equals
\* S on every other cell; each accepting step zeroes the pairs of the
\* alignment it accepts and changes no other cell.
C22_Masked ==
    /\ [](pc \in {"loop", "returned"} =>
            /\ S_work.shape = S.shape
            /\ DOMAIN S_work.a = DOMAIN S.a
            /\ \A p \in DOMAIN S.a :
                S_work.a[p] = IF \E k \in 1 .. Len(alignments) : p \in PairsOf(k)
                              THEN 0 ELSE S.a[p])
    /\ [][(pc = "loop" /\ Len(alignments') = Len(alignments) + 1) =>
            \A p \in DOMAIN S_work.a :
                S_work'.a[p] = IF p \in { alignments'[Len(alignments')][2][k] :
                                            k \in 1 .. Len(alignments'[Len(alignments')][2]) }
                               THEN 0 ELSE S_work.a[p]]_vars

\* a loop state after two accepted alignments, where a cell outside them is
\* non-zero in the working matrix and a cell inside them is non-zero in S
C22_Witness ==
    /\ pc = "loop"
    /\ Len(alignments) = 2
    /\ \E p \in DOMAIN S.a : S_work.a[p] # 0
    /\ \E p \in PairsOf(1) \cup PairsOf(2) : S.a[p] # 0

\* C23: after the dynamic program every cell (i, j) with i, j >= 1 has H = 0
\* exactly when its tag is STOP; a cell tagged DIAGONAL, UP or LEFT has H > 0.
C23_StopIffZero ==
    pc = "sw_done" =>
        \A i \in 1 .. S.shape[1], j \in 1 .. S.shape[2] :
            /\ (result.H_matrix[<<i, j>>] = 0) <=> (result.traceback[<<i, j>>] = STOP)
            /\ result.traceback[<<i, j>>] \in {DIAGONAL, UP, LEFT}
                   => result.H_matrix[<<i, j>>] > 0

\* a completed call with a cell where a move candidate is exactly 0, tying
\* with stopping
C23_Witness ==
    /\ pc = "sw_done"
    /\ \E i \in 1 .. S.shape[1], j \in 1 .. S.shape[2] :
        /\ result.H_matrix[<<i, j>>] = 0
        /\ \E c \in {DIAGONAL, UP, LEFT} : Candidates(i, j)[c] = 0

\* the sum of S[i][j] - threshold over the pairs al[1..n]
RECURSIVE SimSum(_, _)
SimSum(al, n) ==
    IF n = 0 THEN 0
    ELSE SimSum(al, n - 1) + S.a[al[n]] - score_threshold

\* the positions on the traceback path of the cells tagged UP or LEFT, and
\* those among them that begin a maximal run of equal gap tags
GapSteps == { k \in 1 .. Len(result.path) :
                result.traceback[result.path[k]] \in {UP, LEFT} }
GapRuns == { k \in GapSteps :
                k = 1 \/ result.traceback[result.path[k - 1]]
                            # result.traceback[result.path[k]] }

\* C24: the returned score is the sum of the step costs of the traceback
\* path: S[i][j] - threshold for every returned pair, and
\* gap_open + (k-1) * gap_extend for every maximal run of k consecutive UP
\* steps or k consecutive LEFT steps.
C24_ScoreIsPathCost ==
    pc = "sw_done" =>
        result.max_score =
            SimSum(result.alignment, Len(result.alignment))
              + Cardinality(GapRuns) * gap_open
              + (Cardinality(GapSteps) - Cardinality(GapRuns)) * gap_extend

\* a completed call with negative, different gap penalties whose path has a
\* run of two equal gap steps between two DIAGONAL steps
C24_Witness ==
    /\ pc = "sw_done"
    /\ gap_open < 0
    /\ gap_extend < 0
    /\ gap_open # gap_extend
    /\ \E k \in 2 .. Len(result.path) - 2 :
        /\ k \in GapSteps
        /\ k + 1 \in GapSteps \ GapRuns
        /\ result.traceback[result.path[k - 1]] = DIAGONAL
        /\ result.traceback[result.path[k + 2]] = DIAGONAL

\* C25: with gap_open < 0 and gap_extend < 0, whenever the returned score is
\* positive the alignment is not empty, the maximum-score cell (i, j) is tagged
\* DIAGONAL and gives the last returned pair (i-1, j-1), and the cell where
\* the traceback path ends (the first step of the alignment) is tagged
\* DIAGONAL too and gives the first returned pair.
C25_NoOuterGap ==
    (pc = "sw_done" /\ gap_open < 0 /\ gap_extend < 0 /\ result.max_score > 0) =>
        LET n     == Len(result.alignment)
            first == result.path[Len(result.path)]
        IN  /\ n >= 1
            /\ result.traceback[result.max_pos] = DIAGONAL
            /\ result.alignment[n] = <<result.max_pos[1] - 1, result.max_pos[2] - 1>>
            /\ result.traceback[first] = DIAGONAL
            /\ result.alignment[1] = <<first[1] - 1, first[2] - 1>>

\* a completed call with negative gap penalties and a positive score whose
\* path has a gap step inside
C25_Witness ==
    /\ pc = "sw_done"
    /\ gap_open < 0
    /\ gap_extend < 0
    /\ result.max_score > 0
    /\ Len(result.path) > Len(result.alignment)
    /\ Len(result.alignment) >= 2

\* C26: with the default gap penalties and threshold no alignment returned by
\* smith_waterman_chunks contains a pair whose similarity is <= 0; so in a
\* call of find_multiple_alignments with the default gap penalties every
\* pair of an accepted alignment has a positive similarity in S and belongs
\* to no alignment accepted before (a masked cell is never aligned again).
C26_PositivePairs ==
    /\ (pc = "sw_done" /\ gap_open = GAP_OPEN /\ gap_extend = GAP_EXTEND
          /\ score_threshold = SCORE_THRESHOLD) =>
            \A k \in 1 .. Len(result.alignment) : S.a[result.alignment[k]] > 0
    /\ (pc \in {"loop", "returned"} /\ gap_open = GAP_OPEN /\ gap_extend = GAP_EXTEND) =>
            \A k \in 1 .. Len(alignments) :
                \A p \in PairsOf(k) :
                    /\ S.a[p] > 0
                    /\ \A m \in 1 .. k - 1 : p \notin PairsOf(m)

\* a call of find_multiple_alignments with the default gap penalties that
\* returned two alignments, the second one with a gap between two of its pairs
C26_Witness ==
    /\ pc = "returned"
    /\ gap_open = GAP_OPEN
    /\ gap_extend = GAP_EXTEND
    /\ Len(alignments) = 2
    /\ Len(alignments[2][2]) >= 2
    /\ \E k \in 1 .. Len(alignments[2][2]) - 1 :
        alignments[2][2][k + 1] # <<alignments[2][2][k][1] + 1, alignments[2][2][k][2] + 1>>

\* C27: whenever find_multiple_alignments returns fewer than max_alignments
\* alignments, smith_waterman_chunks with the same gap penalties on S with all
\* returned pairs set to 0, which is the final working matrix, gives a score
\* below min_score or an alignment with fewer than min_chunks pairs.
C27_StopReason ==
    (pc = "returned" /\ Len(alignments) < max_alignments) =>
        LET W == [S EXCEPT !.a = [p \in DOMAIN S.a |->
                     IF \E k \in 1 .. Len(alignments) : p \in PairsOf(k)
                     THEN 0 ELSE S.a[p]]]
            r == smith_waterman_chunks(W, gap_open, gap_extend, SCORE_THRESHOLD)
        IN  /\ W = S_work
            /\ r.max_score < min_score \/ Len(r.alignment) < min_chunks

\* a call that returned one alignment although two were allowed, what is left
\* scoring at least min_score but being too short
C27_Witness ==
    /\ pc = "returned"
    /\ max_alignments = 2
    /\ Len(alignments) = 1
    /\ min_chunks >= 1
    /\ Pass.max_score >= min_score
    /\ Len(Pass.alignment) < min_chunks

\* C28: every pair (i, j) returned by smith_waterman_chunks on an n1 x n2
\* matrix has 0 <= i < n1 and 0 <= j < n2, and the alignment has at most
\* min(n1, n2) pairs.
C28_PairsInRange ==
    pc = "sw_done" =>
        /\ \A k \in 1 .. Len(result.alignment) :
            /\ 0 <= result.alignment[k][1] /\ result.alignment[k][1] < S.shape[1]
            /\ 0 <= result.alignment[k][2] /\ result.alignment[k][2] < S.shape[2]
        /\ Len(result.alignment) <= Min(S.shape[1], S.shape[2])

\* a completed call on a matrix with fewer rows than columns whose alignment
\* has one pair per row, the last one in the last column
C28_Witness ==
    /\ pc = "sw_done"
    /\ S.shape[1] >= 2
    /\ S.shape[1] < S.shape[2]
    /\ Len(result.alignment) = S.shape[1]
    /\ result.alignment[Len(result.alignment)][2] = S.shape[2] - 1

\* C29: the score returned by smith_waterman_chunks is the largest entry of the
\* returned table: no entry exceeds it, and when it is positive some cell
\* holds it.
C29_ScoreIsMaximum ==
    pc = "sw_done" =>
        /\ \A p \in DOMAIN result.H_matrix : result.H_matrix[p] <= result.max_score
        /\ result.max_score > 0 =>
              \E p \in DOMAIN result.H_matrix : result.H_matrix[p] = result.max_score
        /\ \E p \in DOMAIN result.H_matrix : result.H_matrix[p] = result.max_score

\* a completed call whose positive maximum is not in the last cell filled, which
\* holds a smaller positive value
C29_Witness ==
    /\ pc = "sw_done"
    /\ result.max_score > 0
    /\ result.max_pos # <<S.shape[1], S.shape[2]>>
    /\ result.H_matrix[<<S.shape[1], S.shape[2]>>] > 0
    /\ result.H_matrix[<<S.shape[1], S.shape[2]>>] < result.max_score

\* chunk_protein was called within the stated range of its arguments
C30_InRange ==
    \/ chunker.L <= chunker.chunk_len
    \/ (1 <= chunker.stride /\ chunker.stride <= chunker.chunk_len)

\* the table a finished call returns is the one stated
C30_Returned ==
    (chunker.pc = "done" /\ C30_InRange) =>
        LET chunks == chunker.chunks
            n == Len(chunks)
            L == chunker.L
        IN IF L <= chunker.chunk_len
           THEN /\ n = 1
                /\ chunks[1].start = 1
                /\ chunks[1].end = L
           ELSE /\ n >= 1
                /\ \A k \in 0 .. n - 1 :
                      /\ chunks[k + 1].chunk_index = k
                      /\ chunks[k + 1].start = k * chunker.stride + 1
                      /\ chunks[k + 1].end
                           = Min(k * chunker.stride + chunker.chunk_len, L)
                      /\ (chunks[k + 1].end = L) <=> (k = n - 1)
                /\ \A p \in 1 .. L :
                      \E k \in 1 .. n : chunks[k].start <= p /\ p <= chunks[k].end

\* C30: chunk_protein on a sequence of length L > chunk_len with
\* 1 <= stride <= chunk_len terminates and returns chunks k = 0, 1, ... with
\* consecutive chunk_index, start = k*stride + 1 and
\* end = min(k*stride + chunk_len, L), every position 1..L lies in at least
\* one chunk and only the last chunk has end = L; for L <= chunk_len it
\* returns the single chunk with start 1 and end L.
C30_Chunks ==
    /\ []C30_Returned
    /\ (chunker.pc = "start" /\ C30_InRange) ~> (chunker.pc = "done")

\* a finished call with stride < chunk_len < L that returned at least three
\* chunks, the last one shorter than chunk_len
C30_Witness ==
    /\ chunker.pc = "done"
    /\ chunker.stride < chunker.chunk_len
    /\ chunker.chunk_len < chunker.L
    /\ Len(chunker.chunks) >= 3
    /\ LET last == chunker.chunks[Len(chunker.chunks)]
       IN last.end - last.start + 1 < chunker.chunk_len
====
